---- MODULE Spec2Model ----
(***************************************************************************)
(* Model of lib/token-cache.js: TokenCache (a key -> TokenRequest map) and *)
(* TokenRequest (the per-key single-flight cell).                          *)
(*                                                                         *)
(* Strings are sequences of one-character strings, so that join and split  *)
(* are computed as the code computes them.  A callback is identified by    *)
(* the number of the get call that passed it.  The token (or error) that   *)
(* the authenticate collaborator yields for its n-th invocation is the     *)
(* opaque value n.                                                         *)
(***************************************************************************)
EXTENDS Integers, Sequences, FiniteSets, TLC

VARIABLES cache, slots, acqs, calls, delivered, now

vars == <<cache, slots, acqs, calls, delivered, now>>

----------------------------------------------------------------------------
(* Bounds of the model *)

MaxCalls == 3

MaxTime == 2

MaxSlots == 2

----------------------------------------------------------------------------
(* JavaScript values *)

Undefined == -1

Null == 0

DefaultDuration == 3600000

TruthyNum(v) == v # Undefined /\ v # Null

TruthyStr(v) == v # <<>>

----------------------------------------------------------------------------
(* The options values the callers pass *)

OptA == [email |-> <<"a">>, scopes |-> << <<"s">> >>, delegationEmail |-> <<>>, expiration |-> Undefined]

OptB == [email |-> <<"b">>, scopes |-> << <<"s">> >>, delegationEmail |-> <<>>, expiration |-> 1]

(* the same two scopes in either order, and one scope that holds a comma  *)
OptXY == [email |-> <<"a">>, scopes |-> << <<"x">>, <<"y">> >>, delegationEmail |-> <<>>, expiration |-> Undefined]

OptYX == [email |-> <<"a">>, scopes |-> << <<"y">>, <<"x">> >>, delegationEmail |-> <<>>, expiration |-> Undefined]

OptCommaXY == [email |-> <<"a">>, scopes |-> << <<"x", ",", "y">> >>, delegationEmail |-> <<>>, expiration |-> Undefined]

(* a colon in the email, and a colon in the scope *)
OptColonEmail == [email |-> <<"a", ":", "s">>, scopes |-> << <<"s">> >>, delegationEmail |-> <<>>, expiration |-> Undefined]

OptColonScope == [email |-> <<"a">>, scopes |-> << <<"s", ":", "s">> >>, delegationEmail |-> <<>>, expiration |-> Undefined]

(* delegation: a@corp.com, b@corp.com, a@other.com *)
OptCorpA == [email |-> <<"a">>, scopes |-> << <<"s">> >>, expiration |-> Undefined,
             delegationEmail |-> <<"a", "@", "c", "o", "r", "p", ".", "c", "o", "m">>]

OptCorpB == [email |-> <<"a">>, scopes |-> << <<"s">> >>, expiration |-> Undefined,
             delegationEmail |-> <<"b", "@", "c", "o", "r", "p", ".", "c", "o", "m">>]

OptOtherA == [email |-> <<"a">>, scopes |-> << <<"s">> >>, expiration |-> Undefined,
              delegationEmail |-> <<"a", "@", "o", "t", "h", "e", "r", ".", "c", "o", "m">>]

(* callers of the key of OptB that ask for a validity of 0 ms, or for none *)
OptZero == [email |-> <<"b">>, scopes |-> << <<"s">> >>, delegationEmail |-> <<>>, expiration |-> 0]

OptNone == [email |-> <<"b">>, scopes |-> << <<"s">> >>, delegationEmail |-> <<>>, expiration |-> Undefined]

MainOptions == <<OptA, OptB>>

OptionList ==
    MainOptions \o <<OptXY, OptYX, OptCommaXY, OptColonEmail, OptColonScope,
                     OptCorpA, OptCorpB, OptOtherA, OptZero, OptNone>>

OptIds == 1 .. Len(MainOptions)

AllOptIds == 1 .. Len(OptionList)

NoRetry == 0

----------------------------------------------------------------------------
(* Key derivation, TokenCache.prototype.get lines 34-40 *)

RECURSIVE Join(_, _)
Join(parts, sep) ==
    IF Len(parts) = 0 THEN <<>>
    ELSE IF Len(parts) = 1 THEN parts[1]
    ELSE parts[1] \o sep \o Join(Tail(parts), sep)

RECURSIVE Split(_, _)
Split(str, ch) ==
    IF \A i \in 1 .. Len(str) : str[i] # ch THEN <<str>>
    ELSE LET p == CHOOSE i \in 1 .. Len(str) :
                     str[i] = ch /\ \A j \in 1 .. (i - 1) : str[j] # ch
         IN <<SubSeq(str, 1, p - 1)>> \o Split(SubSeq(str, p + 1, Len(str)), ch)

UndefinedStr == <<"u", "n", "d", "e", "f", "i", "n", "e", "d">>

DelegationLocalPart(o) ==
    LET parts == Split(o.delegationEmail, "@")
    IN parts[1]

DelegationDomain(o) ==
    LET parts == Split(o.delegationEmail, "@")
    IN IF Len(parts) >= 2 THEN parts[2] ELSE UndefinedStr

KeyOf(o) ==
    LET key == o.email \o <<":">> \o Join(o.scopes, <<",">>)
    IN IF TruthyStr(o.delegationEmail)
       THEN key \o <<":">> \o DelegationDomain(o)
       ELSE key

(* the key of each options value of OptionList *)
OptionKey == [o \in AllOptIds |-> KeyOf(OptionList[o])]

----------------------------------------------------------------------------
(* TokenRequest.  An options object is held by reference: the fields named *)
(* options hold its index in OptionList.                                   *)

NewTokenRequestPreset(o) ==
    [status |-> "expired", pendingCallbacks |-> <<>>, issued |-> 0,
     duration |-> 0, token |-> Null, options |-> o]

NewTokenRequest(o) ==
    [status |-> "expired", pendingCallbacks |-> <<>>, issued |-> Undefined,
     duration |-> Undefined, token |-> Undefined, options |-> o]

(* TokenRequest.prototype.get is assigned inside the constructor, so the   *)
(* one shared method closes over the self, options and fireCallbacks of    *)
(* the TokenRequest constructed last.                                      *)
ClosureSelf(st) == Len(st.slots)

ClosureOptions(st) == st.slots[ClosureSelf(st)].options

IsExpiredIgnoringDuration(slot, t) == slot.issued < t

IsExpiredNow(slot, t) == slot.issued + slot.duration < t

Duration(o) == IF TruthyNum(o.expiration) THEN o.expiration ELSE DefaultDuration

LastAcqOf(st, s) ==
    LET mine == {a \in 1 .. Len(st.acqs) : st.acqs[a].this = s}
    IN IF mine = {} THEN 0 ELSE CHOOSE a \in mine : \A b \in mine : b <= a

RECURSIVE CacheGet(_, _, _, _, _, _)
RECURSIVE SlotGet(_, _, _, _)
RECURSIVE InvokeCallback(_, _, _, _, _, _)
RECURSIVE FireLoop(_, _, _, _, _, _)

(* callback(err, token): the caller's callback runs, and one that retries  *)
(* calls TokenCache.get again, with options OptionList[cb], from inside    *)
(* the callback.                                                           *)
InvokeCallback(st, c, err, token, by, t) ==
    LET st1 == [st EXCEPT !.delivered =
                   Append(@, [call |-> c, err |-> err, token |-> token, by |-> by])]
    IN IF st.calls[c].cb = NoRetry THEN st1
       ELSE CacheGet(st1, st.calls[c].cache, st.calls[c].cb, NoRetry, c, t)

(* TokenRequest.prototype.get, lines 84-117, with this = s, callback = c *)
SlotGet(st, s, c, t) ==
    LET slot == st.slots[s]
    IN IF slot.status = "expired" THEN
           LET a == Len(st.acqs) + 1
           IN [st EXCEPT !.slots[s].status = "pending",
                         !.slots[s].pendingCallbacks = Append(@, c),
                         !.acqs = Append(@, [this |-> s, self |-> ClosureSelf(st),
                                             options |-> ClosureOptions(st), call |-> c,
                                             done |-> FALSE, err |-> Null, token |-> Null]),
                         !.calls[c].attempt = a]
       ELSE IF slot.status = "pending" THEN
           [st EXCEPT !.slots[s].pendingCallbacks = Append(@, c),
                      !.calls[c].attempt = LastAcqOf(st, s)]
       ELSE IF IsExpiredNow(slot, t) THEN
           SlotGet([st EXCEPT !.slots[s].status = "expired"], s, c, t)
       ELSE
           InvokeCallback(st, c, Null, slot.token, 0, t)

(* TokenCache.prototype.get, lines 33-47, on cache k with options         *)
(* OptionList[o]; cb is what the callback does, parent the call whose      *)
(* callback made this call (0 for a call from outside).  The call record   *)
(* notes what the call found: seen is the state of the slot on entry, with *)
(* a completed slot split by now <, =, > issued + duration; waiting is the *)
(* number of callbacks the slot held on entry; attempt is the acquisition  *)
(* the callback was queued on (0 when answered from cache).                *)
CacheGet(st, k, o, cb, parent, t) ==
    LET key == OptionKey[o]
        c == Len(st.calls) + 1
        had == key \in DOMAIN st.cache[k]
        s == IF had THEN st.cache[k][key] ELSE Len(st.slots) + 1
        seen == IF ~had THEN "expired"
                ELSE IF st.slots[s].status # "completed" THEN st.slots[s].status
                ELSE IF t < st.slots[s].issued + st.slots[s].duration THEN "valid"
                ELSE IF t = st.slots[s].issued + st.slots[s].duration THEN "boundary"
                ELSE "overdue"
        waiting == IF had THEN Len(st.slots[s].pendingCallbacks) ELSE 0
        st1 == IF had THEN st
               ELSE [st EXCEPT !.slots = Append(@, NewTokenRequest(o)),
                               !.cache[k] = [x \in DOMAIN @ \cup {key} |->
                                                IF x = key THEN s ELSE @[x]]]
        st2 == [st1 EXCEPT !.calls = Append(@, [cache |-> k, opt |-> o, cb |-> cb,
                                                parent |-> parent, slot |-> s, seen |-> seen,
                                                waiting |-> waiting, attempt |-> 0])]
    IN SlotGet(st2, s, c, t)

RECURSIVE FireLoopReversed(_, _, _, _, _, _)
FireLoopReversed(st, list, err, token, by, t) ==
    IF list = <<>> THEN st
    ELSE FireLoopReversed(InvokeCallback(st, list[Len(list)], err, token, by, t),
                          SubSeq(list, 1, Len(list) - 1), err, token, by, t)

(* fireCallbacks, lines 77-82: forEach visits the callbacks that are in    *)
(* the array when it starts; the array is replaced by [] afterwards.       *)
FireLoop(st, list, err, token, by, t) ==
    IF list = <<>> THEN st
    ELSE FireLoop(InvokeCallback(st, Head(list), err, token, by, t), Tail(list), err, token, by, t)

FireCallbacksKeeping(st, self, err, token, by, t) ==
    FireLoop(st, st.slots[self].pendingCallbacks, err, token, by, t)

FireCallbacks(st, self, err, token, by, t) ==
    LET st1 == FireLoop(st, st.slots[self].pendingCallbacks, err, token, by, t)
    IN [st1 EXCEPT !.slots[self].pendingCallbacks = <<>>]

(* The callback passed to authenticate, lines 91-101, for acquisition a *)
AuthCallback(st, a, err, token, t) ==
    LET self == st.acqs[a].self
        st0 == [st EXCEPT !.acqs[a].done = TRUE, !.acqs[a].err = err, !.acqs[a].token = token]
    IN IF TruthyNum(err) THEN
           FireCallbacks([st0 EXCEPT !.slots[self].status = "expired"], self, err, Null, a, t)
       ELSE
           FireCallbacks([st0 EXCEPT !.slots[self].issued = t,
                                     !.slots[self].duration = Duration(OptionList[st.acqs[a].options]),
                                     !.slots[self].token = token,
                                     !.slots[self].status = "completed"],
                         self, Null, token, a, t)

----------------------------------------------------------------------------
(* The state machine *)

State == [cache |-> cache, slots |-> slots, acqs |-> acqs, calls |-> calls,
          delivered |-> delivered]

Install(st) ==
    /\ cache' = st.cache
    /\ slots' = st.slots
    /\ acqs' = st.acqs
    /\ calls' = st.calls
    /\ delivered' = st.delivered

EmptyCache == [x \in {} |-> 0]

(* the handler's result is installed if it stays within the bounds *)
Within(st) == Len(st.calls) <= MaxCalls /\ Len(st.slots) <= MaxSlots

(* line 124: TokenCache.global exists from the start *)
Init ==
    /\ cache = <<EmptyCache>>
    /\ slots = <<>>
    /\ acqs = <<>>
    /\ calls = <<>>
    /\ delivered = <<>>
    /\ now = 0

(* Date.now() never goes back: a handler that reads the clock reads a value *)
(* t at or after the last reading, and one that does not leaves it alone.  *)
Times == now .. MaxTime

ReadsClock(k, o) ==
    LET key == OptionKey[o]
    IN /\ key \in DOMAIN cache[k]
       /\ slots[cache[k][key]].status = "completed"

(* a caller calls TokenCache.get *)
Get(k, o, cb, t) ==
    /\ Len(calls) < MaxCalls
    /\ t = now \/ ReadsClock(k, o)
    /\ LET st == CacheGet(State, k, o, cb, 0, t)
       IN Within(st) /\ Install(st)
    /\ now' = t

(* TokenCache.prototype.clear, lines 52-54 *)
Clear(k) ==
    /\ cache[k] # EmptyCache
    /\ cache' = [cache EXCEPT ![k] = EmptyCache]
    /\ UNCHANGED <<slots, acqs, calls, delivered, now>>

(* authenticate calls back with a token *)
ResolveOk(a, t) ==
    /\ ~acqs[a].done
    /\ LET st == AuthCallback(State, a, Null, a, t)
       IN Within(st) /\ Install(st)
    /\ now' = t

(* the failure path reads the clock only in a get made by a callback *)
RetryWaits(a) ==
    \E i \in 1 .. Len(slots[acqs[a].self].pendingCallbacks) :
        calls[slots[acqs[a].self].pendingCallbacks[i]].cb # NoRetry

(* authenticate calls back with an error *)
ResolveErr(a, t) ==
    /\ ~acqs[a].done
    /\ t = now \/ RetryWaits(a)
    /\ LET st == AuthCallback(State, a, a, Null, t)
       IN Within(st) /\ Install(st)
    /\ now' = t

(* a caller calls get with a callback that only takes the result *)
Request == \E k \in 1 .. Len(cache), o \in OptIds, t \in Times : Get(k, o, NoRetry, t)

(* a caller calls get with a callback that makes the same request again *)
RequestRetrying == \E k \in 1 .. Len(cache), o \in OptIds, t \in Times : Get(k, o, o, t)

ClearCache == \E k \in 1 .. Len(cache) : Clear(k)

AcquireOk == \E a \in 1 .. Len(acqs), t \in Times : ResolveOk(a, t)

AcquireErr == \E a \in 1 .. Len(acqs), t \in Times : ResolveErr(a, t)

Next ==
    \/ Request
    \/ RequestRetrying
    \/ ClearCache
    \/ AcquireOk
    \/ AcquireErr

Spec == Init /\ [][Next]_vars

(* Callers that pass every kind of options value, on a cache that is never *)
(* cleared and before any acquisition resolves: the setting of the         *)
(* properties of the key derivation.                                       *)
Lookup == \E k \in 1 .. Len(cache), o \in AllOptIds, t \in Times : Get(k, o, NoRetry, t)

NextKey == Lookup

SpecKey == Init /\ [][NextKey]_vars

(* Callers of one key that ask for different validities, and acquisitions  *)
(* that succeed: the setting of the properties of the recorded validity.   *)
ValidityOptIds == {o \in AllOptIds : OptionList[o] \in {OptB, OptZero, OptNone}}

LookupValidity ==
    \E k \in 1 .. Len(cache), o \in ValidityOptIds, t \in Times : Get(k, o, NoRetry, t)

NextValidity ==
    \/ LookupValidity
    \/ AcquireOk

SpecValidity == Init /\ [][NextValidity]_vars

----------------------------------------------------------------------------
(* Vocabulary of the properties *)

Slots == 1 .. Len(slots)

Acqs == 1 .. Len(acqs)

Calls == 1 .. Len(calls)

Deliveries == 1 .. Len(delivered)

DeliveriesOf(c) == {d \in Deliveries : delivered[d].call = c}

Succeeded(a) == acqs[a].done /\ acqs[a].err = Null

Failed(a) == acqs[a].done /\ acqs[a].err # Null

(* acquisitions made for slot s: issued by a get on s, or issued with the  *)
(* options of s and completing into s                                      *)
AcqsFor(s) == {a \in Acqs : acqs[a].this = s \/ acqs[a].self = s}

----------------------------------------------------------------------------
(* C1: single-flight on a cold key: while no acquisition made for a slot   *)
(* has resolved and none of its callers has been answered, authenticate    *)
(* has been invoked exactly once for it, however many gets were made.      *)
C1_SingleFlightCold ==
    \A s \in Slots :
        (/\ \A a \in AcqsFor(s) : ~acqs[a].done
         /\ \A c \in Calls : calls[c].slot = s => DeliveriesOf(c) = {})
        => Cardinality(AcqsFor(s)) = 1

(* C2: every slot has at most one outstanding call to authenticate.        *)
C2_OneOutstandingPerSlot ==
    \A s \in Slots : Cardinality({a \in AcqsFor(s) : ~acqs[a].done}) <= 1

(* C3: a get from a caller on a completed slot with now < issued +         *)
(* duration leaves the slot unchanged, issues no acquisition from it, and  *)
(* calls the callback within the call with (null, the cached token).       *)
C3_ValidServedFromCache ==
    [][\A c \in Calls' :
          (/\ c = Len(calls) + 1
           /\ calls'[c].parent = 0
           /\ calls'[c].seen = "valid")
          => LET s == calls'[c].slot
             IN /\ s \in Slots
                /\ slots'[s] = slots[s]
                /\ \A a \in Acqs' : a > Len(acqs) => acqs'[a].this # s
                /\ Len(delivered') > Len(delivered)
                /\ delivered'[Len(delivered) + 1] =
                       [call |-> c, err |-> Null, token |-> slots[s].token, by |-> 0]]_vars

W_C3 ==
    \E c \in Calls :
        /\ calls[c].parent = 0
        /\ calls[c].seen = "valid"
        /\ now > 0
        /\ \E d \in DeliveriesOf(c) : delivered[d].by = 0

(* C4, for now > issued + duration: a get on a completed slot whose token  *)
(* is overdue triggers exactly one acquisition, and once that acquisition  *)
(* has succeeded the caller has received its token and the slot holds it.  *)
(* (What the code does at now = issued + duration is the subject of C5.)   *)
C4_OverdueReacquired ==
    \A c \in Calls :
        calls[c].seen = "overdue"
        => /\ Cardinality({a \in Acqs : acqs[a].call = c}) = 1
           /\ \A a \in Acqs :
                 (acqs[a].call = c /\ Succeeded(a))
                 => /\ \E d \in DeliveriesOf(c) :
                          delivered[d].err = Null /\ delivered[d].token = acqs[a].token
                    /\ (LastAcqOf(State, calls[c].slot) = a
                        => slots[calls[c].slot].token = acqs[a].token)

(* C5: no caller observes a stale credential: a get is answered from the   *)
(* cache only if now < issued + duration; otherwise, the boundary now =    *)
(* issued + duration included, it is handled as a request on an expired    *)
(* slot and triggers an acquisition.                                       *)
C5_NoStaleCredential ==
    \A c \in Calls :
        /\ (\E d \in DeliveriesOf(c) : delivered[d].by = 0) => calls[c].seen = "valid"
        /\ calls[c].seen \in {"boundary", "overdue"}
           => \E a \in Acqs : acqs[a].call = c /\ acqs[a].this = calls[c].slot

C7_NoSilentDrop ==
    (\A a \in Acqs : acqs[a].done) => \A c \in Calls : DeliveriesOf(c) # {}

(* C8: a callback is invoked at most once per call to get.                 *)
C8_AtMostOnce ==
    \A c \in Calls : Cardinality(DeliveriesOf(c)) <= 1

W_C8 ==
    \E d \in Deliveries, a \in Acqs :
        /\ delivered[d].by # 0
        /\ a > delivered[d].by
        /\ acqs[a].self = acqs[delivered[d].by].self
        /\ acqs[a].done

(* C9: a waiter queued for an attempt that failed with error E is handed   *)
(* exactly (E, null), never a token.                                       *)
C9_FailureVerbatim ==
    \A c \in Calls :
        (calls[c].attempt # 0 /\ Failed(calls[c].attempt))
        => \A d \in DeliveriesOf(c) :
              /\ delivered[d].err = acqs[calls[c].attempt].err
              /\ delivered[d].token = Null

(* C10: after a failed acquisition the slot that issued it is Expired, and *)
(* the next get on it triggers one acquisition whose result is delivered   *)
(* to that caller.                                                         *)
C10_FailureThenFresh ==
    /\ \A s \in Slots :
          LET a == LastAcqOf(State, s)
          IN (a # 0 /\ Failed(a)) => slots[s].status = "expired"
    /\ \A c \in Calls :
          calls[c].seen = "expired"
          => /\ Cardinality({a \in Acqs : acqs[a].call = c}) = 1
             /\ \A a \in Acqs :
                   (acqs[a].call = c /\ acqs[a].done)
                   => \E d \in DeliveriesOf(c) :
                         delivered[d].err = acqs[a].err /\ delivered[d].token = acqs[a].token

(* a slot that no cache maps a key to any more: clear() orphaned it        *)
Orphaned(s) ==
    \A k \in 1 .. Len(cache) : \A key \in DOMAIN cache[k] : cache[k][key] # s

(* C11: clear() isolates what came before from what comes after: the       *)
(* result of an acquisition issued by a get on a slot that clear()         *)
(* orphaned is delivered only to waiters registered on that slot, and a    *)
(* caller on the fresh slot that replaced it for the same key is delivered *)
(* only the result of an acquisition issued by a get on the fresh slot.    *)
C11_ClearIsolates ==
    /\ \A s \in Slots :
          Orphaned(s)
          => \A d \in Deliveries :
                (delivered[d].by # 0 /\ acqs[delivered[d].by].this = s)
                => calls[delivered[d].call].slot = s
    /\ \A c1, c2 \in Calls :
          (/\ calls[c1].cache = calls[c2].cache
           /\ OptionKey[calls[c1].opt] = OptionKey[calls[c2].opt]
           /\ calls[c1].slot < calls[c2].slot)
          => \A d \in DeliveriesOf(c2) :
                delivered[d].by # 0 => acqs[delivered[d].by].this = calls[c2].slot

(* C12: slots are independent: a step in which gets are made and           *)
(* acquisitions resolve changes no slot other than the slots those gets    *)
(* were made on and the slots whose gets issued those acquisitions.        *)
C12_SlotsIndependent ==
    [][\A s \in Slots :
          (/\ \A c \in Calls' : c > Len(calls) => calls'[c].slot # s
           /\ \A a \in Acqs : (~acqs[a].done /\ acqs'[a].done) => acqs[a].this # s)
          => slots'[s] = slots[s]]_vars

(* The logical request of an options value: the email, the set of scopes   *)
(* and the delegation domain, if any.                                      *)
ScopeSet(o) == {o.scopes[i] : i \in 1 .. Len(o.scopes)}

LogicalRequest(o) ==
    [email |-> o.email, scopes |-> ScopeSet(o),
     domain |-> IF o.delegationEmail = <<>> THEN <<>>
                ELSE <<Split(o.delegationEmail, "@")[2]>>]

(* C13: the key does not depend on the order of the scopes: gets on one    *)
(* cache with the same email, the same delegation domain and the same set  *)
(* of scopes have the same key and share one slot (and so the slot's       *)
(* acquisition).                                                           *)
C13_ScopeOrderInsensitive ==
    \A c1, c2 \in Calls :
        (/\ calls[c1].cache = calls[c2].cache
         /\ LogicalRequest(OptionList[calls[c1].opt]) = LogicalRequest(OptionList[calls[c2].opt]))
        => /\ OptionKey[calls[c1].opt] = OptionKey[calls[c2].opt]
           /\ calls[c1].slot = calls[c2].slot

(* C14: the key is injective on the logical request: gets that differ in   *)
(* the email, the set of scopes or the delegation domain have different    *)
(* keys, and so different slots.                                           *)
C14_KeyInjective ==
    \A c1, c2 \in Calls :
        (/\ calls[c1].cache = calls[c2].cache
         /\ LogicalRequest(OptionList[calls[c1].opt]) # LogicalRequest(OptionList[calls[c2].opt]))
        => /\ OptionKey[calls[c1].opt] # OptionKey[calls[c2].opt]
           /\ calls[c1].slot # calls[c2].slot

(* C15: of delegationEmail only the part after the @ takes part in the     *)
(* key: gets on one cache with the same email and scopes and a delegation  *)
(* email each have the same key, and the same slot, exactly if the domains *)
(* of their delegation emails are equal.                                   *)
C15_OnlyDomainInKey ==
    \A c1, c2 \in Calls :
        LET o1 == OptionList[calls[c1].opt]
            o2 == OptionList[calls[c2].opt]
        IN (/\ calls[c1].cache = calls[c2].cache
            /\ o1.email = o2.email
            /\ o1.scopes = o2.scopes
            /\ o1.delegationEmail # <<>>
            /\ o2.delegationEmail # <<>>)
           => /\ (Split(o1.delegationEmail, "@")[2] = Split(o2.delegationEmail, "@")[2])
                 <=> (OptionKey[calls[c1].opt] = OptionKey[calls[c2].opt])
              /\ (OptionKey[calls[c1].opt] = OptionKey[calls[c2].opt])
                 <=> (calls[c1].slot = calls[c2].slot)

W_C15 ==
    \E c1, c2, c3 \in Calls :
        /\ OptionList[calls[c1].opt] = OptCorpA
        /\ OptionList[calls[c2].opt] = OptCorpB
        /\ OptionList[calls[c3].opt] = OptOtherA
        /\ calls[c1].slot = calls[c2].slot
        /\ calls[c1].slot # calls[c3].slot

(* C16: when an acquisition succeeds, the validity recorded in the slot of *)
(* the get that triggered it is the expiration that get's caller supplied  *)
(* (0 included), and one hour if the caller supplied none; the recorded    *)
(* validity of a slot changes in no other step.                            *)
C16_ValidityAsSupplied ==
    [][\A s \in Slots :
          LET won == {a \in Acqs : ~acqs[a].done /\ acqs'[a].done /\ acqs'[a].err = Null
                                    /\ acqs[a].this = s}
          IN /\ won = {} => slots'[s].duration = slots[s].duration
             /\ \A a \in won :
                   LET supplied == OptionList[calls[acqs[a].call].opt].expiration
                   IN slots'[s].duration =
                          IF supplied # Undefined THEN supplied ELSE DefaultDuration]_vars

(* C17: authenticate is invoked with parameters of the slot the get was    *)
(* made on: the options passed to authenticate derive the key of the       *)
(* options passed to the get that triggered the acquisition.               *)
C17_AcquiresOwnParameters ==
    \A a \in Acqs :
        KeyOf(OptionList[acqs[a].options]) = KeyOf(OptionList[calls[acqs[a].call].opt])

(* C18: in every state a caller can observe, a slot holds waiting          *)
(* callbacks only while it is pending: between the handlers, and on entry  *)
(* to every get, the gets made from inside a waiter callback included.     *)
C18_WaitersOnlyWhilePending ==
    /\ \A s \in Slots : slots[s].pendingCallbacks # <<>> => slots[s].status = "pending"
    /\ \A c \in Calls : calls[c].waiting > 0 => calls[c].seen = "pending"

(* the acquisitions that succeeded into slot s *)
WonFor(s) == {a \in Acqs : acqs[a].self = s /\ Succeeded(a)}

(* C19, as stated: a slot holds a token, an issue time and a validity only *)
(* while it is completed; they are absent while it is expired or pending.  *)
C19_CredentialOnlyWhileCompleted ==
    \A s \in Slots :
        slots[s].status # "completed"
        => /\ slots[s].token = Undefined
           /\ slots[s].issued = Undefined
           /\ slots[s].duration = Undefined

(* C19, amended: a completed slot holds a token, an issue time and a       *)
(* validity; they are absent until an acquisition first succeeds into the  *)
(* slot, and from then on the slot keeps holding the token of one of those *)
(* acquisitions, with its issue time and validity, also while it is        *)
(* expired or pending again.  The stored token is handed to a caller only  *)
(* by a get that found the slot completed.                                 *)
C19_CredentialSinceFirstSuccess ==
    /\ \A s \in Slots :
          /\ slots[s].status = "completed" => WonFor(s) # {}
          /\ WonFor(s) = {}
             => /\ slots[s].token = Undefined
                /\ slots[s].issued = Undefined
                /\ slots[s].duration = Undefined
          /\ WonFor(s) # {}
             => /\ slots[s].token \in {acqs[a].token : a \in WonFor(s)}
                /\ slots[s].issued \in 0 .. now
                /\ slots[s].duration \in {Duration(OptionList[acqs[a].options]) : a \in WonFor(s)}
    /\ \A d \in Deliveries :
          delivered[d].by = 0 => calls[delivered[d].call].seen \in {"valid", "boundary"}

W_C19 ==
    \E s \in Slots :
        /\ slots[s].status = "pending"
        /\ slots[s].token # Undefined
        /\ \E a \in Acqs : acqs[a].this = s /\ ~acqs[a].done

(* C20: a slot is pending exactly while an acquisition issued by a get on  *)
(* that slot is outstanding; so once every acquisition has resolved, no    *)
(* slot is pending.                                                        *)
C20_PendingWhileOutstanding ==
    \A s \in Slots :
        slots[s].status = "pending" <=> \E a \in Acqs : acqs[a].this = s /\ ~acqs[a].done

====
